---- MODULE Spec2Model ----
(***************************************************************************)
(* PDQ similarity indexes of python-threatexchange:                        *)
(*   PDQIndex2                (signal_type/pdq/pdq_index2.py)              *)
(*   PDQIndex / PDQFlatIndex  (signal_type/pdq/pdq_index.py)               *)
(* A hash string is a sequence of hex characters; a character is modelled  *)
(* by its value 0..15, and 16 stands for any character that is not a hex  *)
(* digit.  A well-formed PDQ hash has 64 characters = 256 bits, laid out   *)
(* row-major in a 16x16 grid.                                              *)
(***************************************************************************)
EXTENDS Integers, Sequences, FiniteSets, TLC

\* ------------------------------------------------------------------------
\* Constants of the program
\* ------------------------------------------------------------------------
BITS_IN_PDQ == 256
PDQ_HEX_STR_LEN == 64
GRID == 16
PDQ_CONFIDENT_MATCH_THRESHOLD == 31
PDQ_FLAT_MATCH_THRESHOLD == 52

Rng == 0 .. (GRID - 1)

\* ------------------------------------------------------------------------
\* Hash codec (pdq_utils: hex_to_binary_str, binary_str_to_hex)
\* ------------------------------------------------------------------------
\* A string is a well-formed hash: 64 characters, each a hex digit.
WellFormed(h) ==
    /\ Len(h) = PDQ_HEX_STR_LEN
    /\ \A k \in 1 .. Len(h) : h[k] \in 0 .. 15

\* The bit string of a hash, 0-indexed: character k (0-indexed) gives bits
\* 4k .. 4k+3, most significant first.
hex_to_binary_str(h) ==
    [idx \in 0 .. (BITS_IN_PDQ - 1) |->
        (h[(idx \div 4) + 1] \div (2 ^ (3 - (idx % 4)))) % 2]

\* The hex string of a 256-bit string.
binary_str_to_hex(b) ==
    [k \in 1 .. PDQ_HEX_STR_LEN |->
        8 * b[4 * (k - 1)] + 4 * b[4 * (k - 1) + 1]
          + 2 * b[4 * (k - 1) + 2] + b[4 * (k - 1) + 3]]

\* ------------------------------------------------------------------------
\* _get_transformed_hashes (identical in PDQIndex and PDQIndex2)
\* ------------------------------------------------------------------------
\* grid[i][j] = binary[i * 16 + j]
make_grid(binary) ==
    [i \in Rng |-> [j \in Rng |-> binary[i * GRID + j]]]

\* for j in range(16): row = [grid[i][j] for i in range(15, -1, -1)]
rotated_90(grid) ==
    [j \in Rng |-> [p \in Rng |-> grid[15 - p][j]]]

\* for i in range(15, -1, -1): row = [grid[i][j] for j in range(15, -1, -1)]
rotated_180(grid) ==
    [r \in Rng |-> [p \in Rng |-> grid[15 - r][15 - p]]]

\* for j in range(15, -1, -1): row = [grid[i][j] for i in range(16)]
rotated_270(grid) ==
    [r \in Rng |-> [i \in Rng |-> grid[i][15 - r]]]

\* for i in range(16): row = [grid[i][j] for j in range(15, -1, -1)]
flipped_h(grid) ==
    [i \in Rng |-> [p \in Rng |-> grid[i][15 - p]]]

\* for i in range(15, -1, -1): row = [grid[i][j] for j in range(16)]
flipped_v(grid) ==
    [r \in Rng |-> [j \in Rng |-> grid[15 - r][j]]]

\* for j in range(16): row = [flipped_h[i][j] for i in range(16)]
flipped_h_90(fh) ==
    [j \in Rng |-> [i \in Rng |-> fh[i][j]]]

\* for j in range(15, -1, -1): row = [flipped_h[i][j] for i in range(15, -1, -1)]
flipped_h_270(fh) ==
    [r \in Rng |-> [p \in Rng |-> fh[15 - p][15 - r]]]

\* binary_variant = "" ; for row in grid_variant: binary_variant += "".join(row)
grid_to_hex(g) ==
    binary_str_to_hex([idx \in 0 .. (BITS_IN_PDQ - 1) |-> g[idx \div GRID][idx % GRID]])

\* a list without its repeated elements, first occurrences kept
RECURSIVE RemoveDuplicates(_)
RemoveDuplicates(s) ==
    IF s = << >> THEN << >>
    ELSE LET front == RemoveDuplicates(SubSeq(s, 1, Len(s) - 1))
             last  == s[Len(s)]
         IN  IF \E k \in 1 .. Len(front) : front[k] = last
             THEN front
             ELSE Append(front, last)

\* the list of the 7 transformed hashes, without the argument in front and
\* with repeated hashes dropped
get_transformed_hashes_distinct_variants(hash) ==
    LET grid == make_grid(hex_to_binary_str(hash))
        fh   == flipped_h(grid)
    IN  RemoveDuplicates(
         << grid_to_hex(rotated_90(grid)),
            grid_to_hex(rotated_180(grid)),
            grid_to_hex(rotated_270(grid)),
            grid_to_hex(fh),
            grid_to_hex(flipped_v(grid)),
            grid_to_hex(flipped_h_90(fh)),
            grid_to_hex(flipped_h_270(fh)) >>)

\* The list of 8 hashes; element 1 (Python index 0) is the argument itself.
\* Defined for well-formed hashes (hex_to_binary_str raises otherwise).
get_transformed_hashes(hash) ==
    LET grid == make_grid(hex_to_binary_str(hash))
        fh   == flipped_h(grid)
    IN  << hash,
           grid_to_hex(rotated_90(grid)),
           grid_to_hex(rotated_180(grid)),
           grid_to_hex(rotated_270(grid)),
           grid_to_hex(fh),
           grid_to_hex(flipped_v(grid)),
           grid_to_hex(flipped_h_90(fh)),
           grid_to_hex(flipped_h_270(fh)) >>

\* ------------------------------------------------------------------------
\* Input hashes
\* ------------------------------------------------------------------------
\* The hash whose set bits are exactly the bit positions in S.
HashOfBits(S) ==
    binary_str_to_hex([idx \in 0 .. (BITS_IN_PDQ - 1) |-> IF idx \in S THEN 1 ELSE 0])

ZeroHash == HashOfBits({})
\* "f" * 32 + "0" * 32 : top half set (ORIGINAL_HASH of the tests)
ORIGINAL_HASH == [k \in 1 .. PDQ_HEX_STR_LEN |-> IF k <= 32 THEN 15 ELSE 0]

\* An asymmetric dense pattern (no rotation or flip maps it to itself).
PatternHash == HashOfBits({idx \in 0 .. (BITS_IN_PDQ - 1) : (idx * idx + idx \div 16) % 5 = 1})

\* Number of single-bit hashes (bit b of row 0, b = 1 .. MaxTBit) among the
\* inputs of the transformation runs.
MaxTBit == 6

THashes ==
    {ZeroHash, ORIGINAL_HASH, PatternHash} \cup {HashOfBits({b}) : b \in 1 .. MaxTBit}

\* ------------------------------------------------------------------------
\* The transformations as spec section 4.2 states them, on the 16x16 grid
\* ------------------------------------------------------------------------
\* R90: out[j][15-i] = in[i][j]
SpecR90(g) == [a \in Rng |-> [b \in Rng |-> g[15 - b][a]]]
\* R180: out[15-i][15-j] = in[i][j]
SpecR180(g) == [a \in Rng |-> [b \in Rng |-> g[15 - a][15 - b]]]
\* R270: out[15-j][i] = in[i][j]
SpecR270(g) == [a \in Rng |-> [b \in Rng |-> g[b][15 - a]]]
\* Flip-H: out[i][15-j] = in[i][j]
SpecFlipH(g) == [a \in Rng |-> [b \in Rng |-> g[a][15 - b]]]
\* Flip-V: out[15-i][j] = in[i][j]
SpecFlipV(g) == [a \in Rng |-> [b \in Rng |-> g[15 - a][b]]]

\* Transformation k = 0 .. 7 of section 4.2 applied to a well-formed hash.
SpecTransform(k, h) ==
    LET g == make_grid(hex_to_binary_str(h))
    IN  CASE k = 0 -> grid_to_hex(g)
          [] k = 1 -> grid_to_hex(SpecR90(g))
          [] k = 2 -> grid_to_hex(SpecR180(g))
          [] k = 3 -> grid_to_hex(SpecR270(g))
          [] k = 4 -> grid_to_hex(SpecFlipH(g))
          [] k = 5 -> grid_to_hex(SpecFlipV(g))
          [] k = 6 -> grid_to_hex(SpecR90(SpecFlipH(g)))
          [] k = 7 -> grid_to_hex(SpecR270(SpecFlipH(g)))

SeqToSet(s) == {s[k] : k \in 1 .. Len(s)}

\* ------------------------------------------------------------------------
\* Inputs of the index runs
\* ------------------------------------------------------------------------
HA == HashOfBits({1})
\* HA rotated 90 degrees clockwise
HB == HashOfBits({31})
\* 32 bits set; at distance 31 from HA and from HB, 32 from ZeroHash
HT == HashOfBits(1 .. 32)
\* "z" followed by 63 zeros
BadHash == [k \in 1 .. PDQ_HEX_STR_LEN |-> IF k = 1 THEN 16 ELSE 0]
\* 63 zeros
ShortHash == [k \in 1 .. (PDQ_HEX_STR_LEN - 1) |-> 0]

Metas == {"a", "b"}
AddHashes == {HA, HT, BadHash}
QueryHashes ==
    SeqToSet(get_transformed_hashes(HA)) \cup {ZeroHash, HT, BadHash, ShortHash}
Thresholds == {0, PDQ_CONFIDENT_MATCH_THRESHOLD}
\* threshold arguments of the constructor runs: the ends of 0 .. 256 and the
\* integers next to them outside
ThresholdArgs == {-1, 0, BITS_IN_PDQ, BITS_IN_PDQ + 1}

\* threads that call query on one index at the same time
MaxThreads == 2
Threads == 1 .. MaxThreads
\* the hashes they query: a stored hash, its 90-degree rotation, a
\* malformed string
ThreadQueries == {HA, HB, BadHash}
\* the entries the queried index was constructed with
QueriedEntries ==
    { << << HA, "a" >>, << HA, "b" >> >>,
      << << HA, "a" >>, << HT, "b" >> >> }

\* pairs taken by add and add_all in one run, and pairs in one add_all batch
MaxAdds == 3
MaxBatch == 2

Pairs == AddHashes \X Metas
Batches == UNION {[1 .. n -> Pairs] : n \in 0 .. MaxBatch}

\* ------------------------------------------------------------------------
\* Tables of the pure functions on the hashes of the index runs.  TLC
\* evaluates a table once; the operators below it look their result up.
\* ------------------------------------------------------------------------
KnownHashes == {h \in QueryHashes \cup AddHashes : WellFormed(h)}
TransformedTable == [h \in KnownHashes |-> get_transformed_hashes(h)]
OrientedHashes == KnownHashes \cup UNION {SeqToSet(TransformedTable[h]) : h \in KnownHashes}
\* pdq_utils.convert_pdq_strings_to_ndarray for one well-formed string: its
\* 256-entry 0/1 vector
to_vector(h) == hex_to_binary_str(h)
\* squared L2 distance of the vectors of two hashes: for 0/1 vectors, the
\* number of positions that differ
DistanceTable ==
    [q \in OrientedHashes |-> [g \in AddHashes \cap KnownHashes |->
        Cardinality({idx \in 0 .. (BITS_IN_PDQ - 1) : to_vector(q)[idx] # to_vector(g)[idx]})]]

\* self._get_transformed_hashes(hash), hash well-formed
transformed_hashes_of(hash) == TransformedTable[hash]

\* ------------------------------------------------------------------------
\* Range-search backends
\* ------------------------------------------------------------------------
\* A backend is modelled by the hashes whose vectors it stores.
\* pdq_utils.convert_pdq_strings_to_ndarray raises on a malformed string.
convert_raises(pdq_strings) ==
    \E k \in 1 .. Len(pdq_strings) : ~WellFormed(pdq_strings[k])

\* Distance of the vector of query hash q and the stored vector of hash g
Distance(q, g) == DistanceTable[q][g]

\* faiss IndexFlatL2.range_search(query, radius): the (id, distance) pairs
\* with distance < radius, ids ascending.
range_search(vectors, q, radius) ==
    LET all == [n \in 1 .. Len(vectors) |-> << n - 1, Distance(q, vectors[n]) >>]
        near(p) == p[2] < radius
    IN  SelectSeq(all, near)

\* _PDQFaissIndex.add: returns [raised, index]
faiss_add(faiss, pdq_strings) ==
    IF convert_raises(pdq_strings)
    THEN [raised |-> TRUE, index |-> faiss]
    ELSE [raised |-> FALSE,
          index |-> faiss \o pdq_strings]

\* a search whose radius is the threshold itself
faiss_search_radius_threshold(faiss, query, thr) ==
    range_search(faiss, query, thr)

\* _PDQFaissIndex.search for the single query PDQIndex2.query passes
faiss_search(faiss, query, thr) ==
    range_search(faiss, query, thr + 1)

\* PDQHashIndex.add(hashes, custom_ids) of pdq_faiss_matcher: the hashes are
\* stored under the ids the caller passes; a malformed hash raises before
\* anything is stored.  The backend is a function id -> stored hash.
hash_index_add(index, hashes, custom_ids) ==
    IF convert_raises(hashes)
    THEN [raised |-> TRUE, index |-> index]
    ELSE [raised |-> FALSE,
          index |-> [id \in DOMAIN index \cup SeqToSet(custom_ids) |->
                        IF id \in DOMAIN index THEN index[id]
                        ELSE LET k == CHOOSE k \in 1 .. Len(custom_ids) : custom_ids[k] = id
                             IN  hashes[k]]]

\* ids ascending, as a sequence
RECURSIVE SortedIds(_)
SortedIds(S) ==
    IF S = {} THEN << >>
    ELSE LET m == CHOOSE x \in S : \A y \in S : x <= y
         IN  << m >> \o SortedIds(S \ {m})

\* PDQHashIndex.search_with_distance_in_result for one query hash: the
\* (id, distance) pairs with distance <= threshold.
search_with_distance_in_result(index, query, thr) ==
    LET ids == SortedIds({id \in DOMAIN index : Distance(query, index[id]) <= thr})
    IN  [n \in 1 .. Len(ids) |-> << ids[n], Distance(query, index[ids[n]]) >>]

\* ------------------------------------------------------------------------
\* PDQIndex2 (pdq_index2.py)
\* ------------------------------------------------------------------------
\* add_all without the _deduper lookup: every pair goes to the backend
RECURSIVE add_all_2_no_dedup(_, _)
add_all_2_no_dedup(st, entries) ==
    IF entries = << >> THEN st
    ELSE LET h == Head(entries)[1]
             i == Head(entries)[2]
             r == faiss_add(st.faiss, << h >>)
         IN  IF r.raised
             THEN [st EXCEPT !.raised = TRUE]
             ELSE add_all_2_no_dedup(
                    [faiss  |-> r.index,
                     ent    |-> Append(st.ent, << i >>),
                     ded    |-> (h :> Len(st.faiss)) @@ st.ded,
                     raised |-> FALSE],
                    Tail(entries))

\* add_all that appends to _idx_to_entries before it adds to the backend
RECURSIVE add_all_2_entries_first(_, _)
add_all_2_entries_first(st, entries) ==
    IF entries = << >> THEN st
    ELSE LET h == Head(entries)[1]
             i == Head(entries)[2]
         IN  IF h \notin DOMAIN st.ded
             THEN LET r == faiss_add(st.faiss, << h >>)
                  IN  IF r.raised
                      THEN [st EXCEPT !.raised = TRUE,
                                      !.ent = Append(st.ent, << i >>)]
                      ELSE add_all_2_entries_first(
                             [faiss  |-> r.index,
                              ent    |-> Append(st.ent, << i >>),
                              ded    |-> st.ded @@ (h :> Cardinality(DOMAIN st.ded)),
                              raised |-> FALSE],
                             Tail(entries))
             ELSE add_all_2_entries_first(
                    [st EXCEPT !.ent[st.ded[h] + 1] = Append(@, i)],
                    Tail(entries))

\* add_all that puts the payload of a repeated hash in front of its list
RECURSIVE add_all_2_prepend(_, _)
add_all_2_prepend(st, entries) ==
    IF entries = << >> THEN st
    ELSE LET h == Head(entries)[1]
             i == Head(entries)[2]
         IN  IF h \notin DOMAIN st.ded
             THEN LET r == faiss_add(st.faiss, << h >>)
                  IN  IF r.raised
                      THEN [st EXCEPT !.raised = TRUE]
                      ELSE add_all_2_prepend(
                             [faiss  |-> r.index,
                              ent    |-> Append(st.ent, << i >>),
                              ded    |-> st.ded @@ (h :> Cardinality(DOMAIN st.ded)),
                              raised |-> FALSE],
                             Tail(entries))
             ELSE add_all_2_prepend(
                    [st EXCEPT !.ent[st.ded[h] + 1] = << i >> \o @],
                    Tail(entries))

\* add_all: st = [faiss, ded, ent, raised]; ids are 0-based, the lists
\* 1-based, so id i is element i + 1 of ent and of faiss.
RECURSIVE add_all_2(_, _)
add_all_2(st, entries) ==
    IF entries = << >> THEN st
    ELSE LET h == Head(entries)[1]
             i == Head(entries)[2]
         IN  IF h \notin DOMAIN st.ded
             THEN LET r == faiss_add(st.faiss, << h >>)
                  IN  IF r.raised
                      THEN [st EXCEPT !.raised = TRUE]
                      ELSE add_all_2(
                             [faiss  |-> r.index,
                              ent    |-> Append(st.ent, << i >>),
                              ded    |-> st.ded @@ (h :> Cardinality(DOMAIN st.ded)),
                              raised |-> FALSE],
                             Tail(entries))
             ELSE add_all_2(
                    [st EXCEPT !.ent[st.ded[h] + 1] = Append(@, i)],
                    Tail(entries))

\* add(signal_str, entry): self.add_all(((signal_str, entry),))
add_2(st, signal_str, entry) ==
    add_all_2(st, << << signal_str, entry >> >>)

\* add called on each pair of a list in order
RECURSIVE add_each_2(_, _)
add_each_2(st, entries) ==
    IF entries = << >> THEN st
    ELSE add_each_2(add_2(st, Head(entries)[1], Head(entries)[2]), Tail(entries))

\* the inner loop of query without the seen_ids test
RECURSIVE take_matches_2_no_seen(_, _, _)
take_matches_2_no_seen(acc, ent, matches_list) ==
    IF matches_list = << >> THEN acc
    ELSE LET match    == Head(matches_list)[1]
             distance == Head(matches_list)[2]
         IN  take_matches_2_no_seen(
                    [seen_ids    |-> acc.seen_ids \cup {match},
                     all_matches |-> acc.all_matches \o
                        [e \in 1 .. Len(ent[match + 1]) |->
                            [id |-> match, distance |-> distance,
                             metadata |-> ent[match + 1][e]]]],
                    ent, Tail(matches_list))

\* the inner loop of query: for match, distance in matches_list
RECURSIVE take_matches_2(_, _, _)
take_matches_2(acc, ent, matches_list) ==
    IF matches_list = << >> THEN acc
    ELSE LET match    == Head(matches_list)[1]
             distance == Head(matches_list)[2]
         IN  IF match \notin acc.seen_ids
             THEN take_matches_2(
                    [seen_ids    |-> acc.seen_ids \cup {match},
                     all_matches |-> acc.all_matches \o
                        [e \in 1 .. Len(ent[match + 1]) |->
                            [id |-> match, distance |-> distance,
                             metadata |-> ent[match + 1][e]]]],
                    ent, Tail(matches_list))
             ELSE take_matches_2(acc, ent, Tail(matches_list))

\* a query loop that searches the hash as given and no other orientation
query_loop_2_first_only(acc, faiss, ent, thr, transformed_hashes) ==
    take_matches_2(acc, ent, faiss_search(faiss, Head(transformed_hashes), thr))

\* a query loop that goes through the orientations from the last to the first
RECURSIVE query_loop_2_reversed(_, _, _, _, _)
query_loop_2_reversed(acc, faiss, ent, thr, transformed_hashes) ==
    IF transformed_hashes = << >> THEN acc
    ELSE take_matches_2(
           query_loop_2_reversed(acc, faiss, ent, thr, Tail(transformed_hashes)),
           ent, faiss_search(faiss, Head(transformed_hashes), thr))

\* the outer loop of query: for transformed_hash in transformed_hashes
RECURSIVE query_loop_2(_, _, _, _, _)
query_loop_2(acc, faiss, ent, thr, transformed_hashes) ==
    IF transformed_hashes = << >> THEN acc
    ELSE query_loop_2(
           take_matches_2(acc, ent,
                          faiss_search(faiss, Head(transformed_hashes), thr)),
           faiss, ent, thr, Tail(transformed_hashes))

\* query of a well-formed hash: the list of matches.  A match is modelled
\* with the id it came from next to its distance and metadata.
query_2(faiss, ent, thr, hash) ==
    query_loop_2([seen_ids |-> {}, all_matches |-> << >>],
                 faiss, ent, thr, transformed_hashes_of(hash)).all_matches

\* ------------------------------------------------------------------------
\* PDQIndex and PDQFlatIndex (pdq_index.py)
\* ------------------------------------------------------------------------
get_match_threshold(cls) ==
    IF cls = "PDQFlatIndex" THEN PDQ_FLAT_MATCH_THRESHOLD
    ELSE PDQ_CONFIDENT_MATCH_THRESHOLD

\* add_all that skips a pair whose hash the entry list already holds
RECURSIVE add_all_1_dedup(_, _)
add_all_1_dedup(st, entries) ==
    IF entries = << >> THEN st
    ELSE LET h == Head(entries)[1]
         IN  IF \E k \in 1 .. Len(st.entries) : st.entries[k][1] = h
             THEN add_all_1_dedup(st, Tail(entries))
             ELSE LET r == hash_index_add(st.index, << h >>, << Len(st.entries) >>)
                  IN  add_all_1_dedup(
                        [entries |-> Append(st.entries, Head(entries)),
                         index |-> r.index, raised |-> st.raised \/ r.raised],
                        Tail(entries))

\* add_all: st = [entries, index, raised]
add_all_1(st, entries) ==
    LET start == Len(st.entries)
        ext   == st.entries \o entries
    IN  IF start # Len(ext)
        THEN LET r == hash_index_add(
                        st.index,
                        [k \in 1 .. Len(entries) |-> entries[k][1]],
                        [k \in 1 .. Len(entries) |-> start + k - 1])
             IN  [entries |-> ext, index |-> r.index, raised |-> r.raised]
        ELSE [entries |-> ext, index |-> st.index, raised |-> FALSE]

\* for id, _, distance in results[transformed_hash]
RECURSIVE take_matches_1(_, _, _)
take_matches_1(acc, entries, results) ==
    IF results = << >> THEN acc
    ELSE LET id       == Head(results)[1]
             distance == Head(results)[2]
         IN  IF id \notin acc.seen_ids
             THEN take_matches_1(
                    [seen_ids    |-> acc.seen_ids \cup {id},
                     all_matches |-> Append(acc.all_matches,
                            [id |-> id, distance |-> distance,
                             metadata |-> entries[id + 1][2]])],
                    entries, Tail(results))
             ELSE take_matches_1(acc, entries, Tail(results))

\* for transformed_hash in transformed_hashes
RECURSIVE query_loop_1(_, _, _, _, _)
query_loop_1(acc, index, entries, thr, transformed_hashes) ==
    IF transformed_hashes = << >> THEN acc
    ELSE query_loop_1(
           take_matches_1(acc, entries,
               search_with_distance_in_result(index, Head(transformed_hashes), thr)),
           index, entries, thr, Tail(transformed_hashes))

query_1(index, entries, thr, hash) ==
    query_loop_1([seen_ids |-> {}, all_matches |-> << >>],
                 index, entries, thr, transformed_hashes_of(hash)).all_matches

\* ------------------------------------------------------------------------
\* State
\* ------------------------------------------------------------------------
VARIABLES
    thash,              \* argument of the running _get_transformed_hashes call
    tres,               \* its returned list, << >> before it returns
    kind,               \* class of the index object
    threshold,          \* PDQIndex2.threshold
    faiss_index,        \* PDQIndex2._index.faiss_index: the stored hashes
    deduper,            \* PDQIndex2._deduper
    idx_to_entries,     \* PDQIndex2._idx_to_entries
    local_id_to_entry,  \* PDQIndex.local_id_to_entry
    index,              \* PDQIndex.index: id -> stored hash
    ret,                \* the last call and what it returned, Idle between calls
    hist,               \* the pairs add and add_all took so far, in order,
                        \* each with whether its call returned normally
    calls               \* per thread, the query call it is running step by
                        \* step with the locals of that call

ivars == << kind, threshold, faiss_index, deduper, idx_to_entries,
            local_id_to_entry, index, ret, hist, calls >>
vars == << thash, tres, ivars >>

Idle == [op |-> "idle", arg |-> << >>, raised |-> FALSE, matches |-> << >>]
Returned(op, arg, raised, matches) ==
    [op |-> op, arg |-> arg, raised |-> raised, matches |-> matches]

\* a thread that is not inside query
NoCall == [pc |-> "idle", hash |-> << >>, todo |-> << >>, results |-> << >>,
           acc |-> [seen_ids |-> {}, all_matches |-> << >>], mixed |-> FALSE]
NoCalls == [t \in Threads |-> NoCall]

EmptyIndex ==
    /\ calls = NoCalls
    /\ faiss_index = << >>
    /\ deduper = << >>
    /\ idx_to_entries = << >>
    /\ local_id_to_entry = << >>
    /\ index = << >>
    /\ ret = Idle
    /\ hist = << >>

\* __len__
len_2 == Len(idx_to_entries)
len_1 == Len(local_id_to_entry)

\* ------------------------------------------------------------------------
\* Runs of _get_transformed_hashes alone
\* ------------------------------------------------------------------------
InitT ==
    /\ thash \in THashes
    /\ tres = << >>
    /\ kind = "PDQIndex2"
    /\ threshold = PDQ_CONFIDENT_MATCH_THRESHOLD
    /\ EmptyIndex

\* index._get_transformed_hashes(thash) returns
GetTransformed ==
    /\ tres = << >>
    /\ tres' = get_transformed_hashes(thash)
    /\ UNCHANGED << thash, ivars >>

\* the caller passes element k of the returned list to the next call
Reapply(k) ==
    /\ tres # << >>
    /\ thash' = tres[k]
    /\ tres' = << >>
    /\ UNCHANGED ivars

NextT ==
    \/ GetTransformed
    \/ \E k \in 1 .. 8 : Reapply(k)

SpecT == InitT /\ [][NextT]_vars

\* ------------------------------------------------------------------------
\* Runs of one index object
\* ------------------------------------------------------------------------
\* PDQIndex2(threshold=t), PDQIndex() or PDQFlatIndex(), with no entries
Init ==
    /\ thash = ZeroHash
    /\ tres = << >>
    /\ \/ kind = "PDQIndex2" /\ threshold \in Thresholds
       \/ kind \in {"PDQIndex", "PDQFlatIndex"}
            /\ threshold = PDQ_CONFIDENT_MATCH_THRESHOLD
    /\ EmptyIndex

\* The pairs of a batch whose loop iteration in PDQIndex2.add_all finishes:
\* those before the first malformed hash.
RECURSIVE Taken2(_)
Taken2(entries) ==
    IF entries = << >> \/ ~WellFormed(Head(entries)[1]) THEN << >>
    ELSE << Head(entries) >> \o Taken2(Tail(entries))

\* pairs as records of hist
Log(entries, ok) ==
    [k \in 1 .. Len(entries) |->
        [hash |-> entries[k][1], entry |-> entries[k][2], ok |-> ok]]

Call_add_all_2(op, entries) ==
    LET st == add_all_2([faiss |-> faiss_index, ded |-> deduper,
                         ent |-> idx_to_entries, raised |-> FALSE], entries)
    IN  /\ faiss_index' = st.faiss
        /\ deduper' = st.ded
        /\ idx_to_entries' = st.ent
        /\ ret' = Returned(op, << >>, st.raised, << >>)
        /\ hist' = hist \o Log(Taken2(entries), ~st.raised)
        /\ UNCHANGED << thash, tres, calls, kind, threshold, local_id_to_entry, index >>

\* PDQIndex2.add(signal_str, entry)
Add2(signal_str, entry) ==
    /\ kind = "PDQIndex2"
    /\ ret = Idle
    /\ Len(hist) + 1 <= MaxAdds
    /\ Call_add_all_2("add", << << signal_str, entry >> >>)

\* PDQIndex2.add_all(entries)
AddAll2(entries) ==
    /\ kind = "PDQIndex2"
    /\ ret = Idle
    /\ Len(hist) + Len(entries) <= MaxAdds
    /\ Call_add_all_2("add_all", entries)

\* PDQIndex2.query(hash)
Query2(hash) ==
    /\ kind = "PDQIndex2"
    /\ ret = Idle
    /\ ret' = IF WellFormed(hash)
              THEN Returned("query", hash, FALSE,
                            query_2(faiss_index, idx_to_entries, threshold, hash))
              ELSE Returned("query", hash, TRUE, << >>)
    /\ UNCHANGED << thash, tres, calls, kind, threshold, faiss_index, deduper,
                    idx_to_entries, local_id_to_entry, index, hist >>

Call_add_all_1(op, entries) ==
    LET st == add_all_1([entries |-> local_id_to_entry, index |-> index,
                         raised |-> FALSE], entries)
    IN  /\ local_id_to_entry' = st.entries
        /\ index' = st.index
        /\ ret' = Returned(op, << >>, st.raised, << >>)
        /\ hist' = hist \o Log(entries, ~st.raised)
        /\ UNCHANGED << thash, tres, calls, kind, threshold, faiss_index, deduper,
                        idx_to_entries >>

\* PDQIndex.add(signal_str, entry)
Add1(signal_str, entry) ==
    /\ kind \in {"PDQIndex", "PDQFlatIndex"}
    /\ ret = Idle
    /\ Len(hist) + 1 <= MaxAdds
    /\ Call_add_all_1("add", << << signal_str, entry >> >>)

\* PDQIndex.add_all(entries)
AddAll1(entries) ==
    /\ kind \in {"PDQIndex", "PDQFlatIndex"}
    /\ ret = Idle
    /\ Len(hist) + Len(entries) <= MaxAdds
    /\ Call_add_all_1("add_all", entries)

\* PDQIndex.query(hash)
Query1(hash) ==
    /\ kind \in {"PDQIndex", "PDQFlatIndex"}
    /\ ret = Idle
    /\ ret' = IF WellFormed(hash)
              THEN Returned("query", hash, FALSE,
                            query_1(index, local_id_to_entry,
                                    get_match_threshold(kind), hash))
              ELSE Returned("query", hash, TRUE, << >>)
    /\ UNCHANGED << thash, tres, calls, kind, threshold, faiss_index, deduper,
                    idx_to_entries, local_id_to_entry, index, hist >>

\* the caller takes the result (or catches the exception) and goes on
Resume ==
    /\ ret # Idle
    /\ ret' = Idle
    /\ UNCHANGED << thash, tres, calls, kind, threshold, faiss_index, deduper,
                    idx_to_entries, local_id_to_entry, index, hist >>

Next ==
    \/ \E h \in AddHashes, m \in Metas : Add2(h, m)
    \/ \E b \in Batches : AddAll2(b)
    \/ \E q \in QueryHashes : Query2(q)
    \/ \E h \in AddHashes, m \in Metas : Add1(h, m)
    \/ \E b \in Batches : AddAll1(b)
    \/ \E q \in QueryHashes : Query1(q)
    \/ Resume

Spec == Init /\ [][Next]_vars

\* ------------------------------------------------------------------------
\* Runs that start before the index object is constructed
\* ------------------------------------------------------------------------
InitNew ==
    /\ thash = ZeroHash
    /\ tres = << >>
    /\ kind = "none"
    /\ threshold = PDQ_CONFIDENT_MATCH_THRESHOLD
    /\ EmptyIndex

\* PDQIndex2(entries=entries, threshold=t): the fields are set, then
\* add_all(entries) runs; if it raises, the constructor raises and there is
\* no object.
New2(t, entries) ==
    /\ kind = "none"
    /\ ret = Idle
    /\ LET st == add_all_2([faiss |-> << >>, ded |-> << >>, ent |-> << >>,
                            raised |-> FALSE], entries)
       IN  IF st.raised
           THEN /\ ret' = Returned("new", << >>, TRUE, << >>)
                /\ UNCHANGED << kind, threshold, faiss_index, deduper,
                                idx_to_entries, hist >>
           ELSE /\ kind' = "PDQIndex2"
                /\ threshold' = t
                /\ faiss_index' = st.faiss
                /\ deduper' = st.ded
                /\ idx_to_entries' = st.ent
                /\ ret' = Returned("new", << >>, FALSE, << >>)
                /\ hist' = Log(entries, TRUE)
    /\ UNCHANGED << thash, tres, calls, local_id_to_entry, index >>

\* PDQIndex(entries) or PDQFlatIndex(entries)
New1(cls, entries) ==
    /\ kind = "none"
    /\ ret = Idle
    /\ LET st == add_all_1([entries |-> << >>, index |-> << >>,
                            raised |-> FALSE], entries)
       IN  IF st.raised
           THEN /\ ret' = Returned("new", << >>, TRUE, << >>)
                /\ UNCHANGED << kind, local_id_to_entry, index, hist >>
           ELSE /\ kind' = cls
                /\ local_id_to_entry' = st.entries
                /\ index' = st.index
                /\ ret' = Returned("new", << >>, FALSE, << >>)
                /\ hist' = Log(entries, TRUE)
    /\ UNCHANGED << thash, tres, calls, threshold, faiss_index, deduper, idx_to_entries >>

NextNew ==
    \/ \E t \in ThresholdArgs, b \in Batches : New2(t, b)
    \/ \E cls \in {"PDQIndex", "PDQFlatIndex"}, b \in Batches : New1(cls, b)
    \/ Next

SpecNew == InitNew /\ [][NextNew]_vars

\* ------------------------------------------------------------------------
\* Runs of concurrent query calls on one index, no add running
\* ------------------------------------------------------------------------
\* PDQIndex2(entries=b, threshold=31) or PDQIndex(b)
InitQ ==
    /\ thash = ZeroHash
    /\ tres = << >>
    /\ kind \in {"PDQIndex2", "PDQIndex"}
    /\ threshold = PDQ_CONFIDENT_MATCH_THRESHOLD
    /\ \E b \in QueriedEntries :
        LET s2 == add_all_2([faiss |-> << >>, ded |-> << >>, ent |-> << >>,
                             raised |-> FALSE], b)
            s1 == add_all_1([entries |-> << >>, index |-> << >>,
                             raised |-> FALSE], b)
        IN  /\ faiss_index = IF kind = "PDQIndex2" THEN s2.faiss ELSE << >>
            /\ deduper = IF kind = "PDQIndex2" THEN s2.ded ELSE << >>
            /\ idx_to_entries = IF kind = "PDQIndex2" THEN s2.ent ELSE << >>
            /\ local_id_to_entry = IF kind = "PDQIndex2" THEN << >> ELSE s1.entries
            /\ index = IF kind = "PDQIndex2" THEN << >> ELSE s1.index
            /\ hist = Log(b, TRUE)
    /\ ret = Idle
    /\ calls = NoCalls

\* seen_ids and all_matches with a set of ids that outlives the call
query_locals_shared(shared) ==
    [seen_ids |-> shared, all_matches |-> << >>]

\* all_matches = [] ; seen_ids = set() : locals of the call, fresh whatever
\* the other running calls have seen
query_locals(shared) ==
    [seen_ids |-> {}, all_matches |-> << >>]

\* the ids the running calls have seen
SeenByCalls == UNION {calls[u].acc.seen_ids : u \in Threads}

\* another thread is between two iterations of its loop
OtherInLoop(t) ==
    \E u \in Threads \ {t} :
        calls[u].pc = "loop" /\ Len(calls[u].todo) \in 1 .. 7

\* thread t calls query(hash): up to the first iteration of the loop.
\* _get_transformed_hashes raises on a malformed hash; PDQIndex searches
\* the backend for all transformed hashes before its loop.
QCall(t, hash) ==
    /\ calls[t].pc = "idle"
    /\ calls' = [calls EXCEPT ![t] =
            IF ~WellFormed(hash)
            THEN [NoCall EXCEPT !.pc = "raised", !.hash = hash]
            ELSE LET T == transformed_hashes_of(hash)
                 IN  [pc      |-> "loop",
                      hash    |-> hash,
                      todo    |-> T,
                      results |-> IF kind = "PDQIndex2" THEN << >>
                                  ELSE [k \in 1 .. Len(T) |->
                                         search_with_distance_in_result(
                                            index, T[k], get_match_threshold(kind))],
                      acc     |-> query_locals(SeenByCalls),
                      mixed   |-> FALSE]]
    /\ UNCHANGED << thash, tres, kind, threshold, faiss_index, deduper,
                    idx_to_entries, local_id_to_entry, index, ret, hist >>

\* one iteration of for transformed_hash in transformed_hashes
QStep(t) ==
    /\ calls[t].pc = "loop"
    /\ calls[t].todo # << >>
    /\ calls' = [calls EXCEPT ![t] =
            [@ EXCEPT
               !.acc = IF kind = "PDQIndex2"
                       THEN take_matches_2(calls[t].acc, idx_to_entries,
                                faiss_search(faiss_index, Head(calls[t].todo), threshold))
                       ELSE take_matches_1(calls[t].acc, local_id_to_entry,
                                Head(calls[t].results)),
               !.todo = Tail(calls[t].todo),
               !.results = IF kind = "PDQIndex2" THEN << >> ELSE Tail(calls[t].results),
               !.mixed = calls[t].mixed \/ OtherInLoop(t)]]
    /\ UNCHANGED << thash, tres, kind, threshold, faiss_index, deduper,
                    idx_to_entries, local_id_to_entry, index, ret, hist >>

\* return all_matches
QReturn(t) ==
    /\ calls[t].pc = "loop"
    /\ calls[t].todo = << >>
    /\ calls' = [calls EXCEPT ![t].pc = "returned"]
    /\ UNCHANGED << thash, tres, kind, threshold, faiss_index, deduper,
                    idx_to_entries, local_id_to_entry, index, ret, hist >>

\* the thread takes the result (or catches the exception) and goes on
QResume(t) ==
    /\ calls[t].pc \in {"returned", "raised"}
    /\ calls' = [calls EXCEPT ![t] = NoCall]
    /\ UNCHANGED << thash, tres, kind, threshold, faiss_index, deduper,
                    idx_to_entries, local_id_to_entry, index, ret, hist >>

NextQ ==
    \/ \E t \in Threads, q \in ThreadQueries : QCall(t, q)
    \/ \E t \in Threads : QStep(t)
    \/ \E t \in Threads : QReturn(t)
    \/ \E t \in Threads : QResume(t)

SpecQ == InitQ /\ [][NextQ]_vars

\* ------------------------------------------------------------------------
\* C1: element k of _get_transformed_hashes(h) is transformation k of spec
\* section 4.2 (identity, R90, R180, R270, flip-h, flip-v, flip-h then R90,
\* flip-h then R270), for k = 0 .. 7.
C1_FixedOrder ==
    tres # << >> =>
        \A k \in 0 .. 7 : tres[k + 1] = SpecTransform(k, thash)

\* C2: the set of the 8 outputs is closed under the listed transformations,
\* and _get_transformed_hashes of any output gives the same set.
C2_Closed ==
    tres # << >> =>
        \A s \in SeqToSet(tres) :
            /\ \A k \in 0 .. 7 : SpecTransform(k, s) \in SeqToSet(tres)
            /\ SeqToSet(get_transformed_hashes(s)) = SeqToSet(tres)

\* ------------------------------------------------------------------------
\* Claims about one index object
\* ------------------------------------------------------------------------
\* the last call was a query that returned its matches
IsQuery == ret.op = "query" /\ ~ret.raised
MatchSet == SeqToSet(ret.matches)
\* the threshold the queries of this object use
Thr == IF kind = "PDQIndex2" THEN threshold ELSE get_match_threshold(kind)
\* the id under which the pair hist[n] is stored
IdOf(n) == IF kind = "PDQIndex2" THEN deduper[hist[n].hash] ELSE n - 1
\* the matches of the last query that came from id i, and their metadata
MatchesOf(i) ==
    LET from_i(m) == m.id = i
    IN  SelectSeq(ret.matches, from_i)
MetadataOf(i) == [k \in 1 .. Len(MatchesOf(i)) |-> MatchesOf(i)[k].metadata]
\* the payloads hash h was added with, in order
PayloadsOf(h) ==
    LET with_h(r) == r.hash = h
        rs == SelectSeq(hist, with_h)
    IN  [k \in 1 .. Len(rs) |-> rs[k].entry]
HistHashes == {hist[n].hash : n \in 1 .. Len(hist)}

C4_ExactWithinThreshold ==
    (kind = "PDQIndex2" /\ IsQuery) =>
        LET T == transformed_hashes_of(ret.arg)
            near(i) == \E k \in 1 .. 8 : Distance(T[k], faiss_index[i + 1]) <= threshold
        IN  /\ {m.id : m \in MatchSet} = {i \in 0 .. (Len(faiss_index) - 1) : near(i)}
            /\ \A m \in MatchSet :
                /\ m.distance <= threshold
                /\ \E k \in 1 .. 8 : m.distance = Distance(T[k], faiss_index[m.id + 1])

\* a query returned a stored hash that lies exactly at the threshold
C4_Witness ==
    /\ kind = "PDQIndex2"
    /\ IsQuery
    /\ threshold > 0
    /\ \E m \in MatchSet : m.distance = threshold

\* C5: in PDQIndex2 a hash added N times with payloads m1 .. mN is in the
\* backend once, len() counts it once, and query(h) returns exactly N matches
\* for it, carrying m1 .. mN.
C5_Dedup ==
    kind = "PDQIndex2" =>
        /\ len_2 = Cardinality(HistHashes)
        /\ \A h \in HistHashes :
            Cardinality({p \in 1 .. Len(faiss_index) : faiss_index[p] = h}) = 1
        /\ (IsQuery /\ ret.arg \in HistHashes) =>
            MetadataOf(deduper[ret.arg]) = PayloadsOf(ret.arg)

\* a hash added twice with different payloads, next to another hash, queried
C5_Witness ==
    /\ kind = "PDQIndex2"
    /\ IsQuery
    /\ ret.arg \in HistHashes
    /\ len_2 = 2
    /\ Len(PayloadsOf(ret.arg)) = 2
    /\ PayloadsOf(ret.arg)[1] # PayloadsOf(ret.arg)[2]
    /\ Len(MatchesOf(deduper[ret.arg])) = 2

C7_OncePerId ==
    IsQuery =>
        \A i \in {m.id : m \in MatchSet} :
            MetadataOf(i) = IF kind = "PDQIndex2"
                            THEN idx_to_entries[i + 1]
                            ELSE << local_id_to_entry[i + 1][2] >>

\* a stored hash with two entries was within the threshold of several
\* orientations of one query
C7_Witness ==
    /\ kind = "PDQIndex2"
    /\ IsQuery
    /\ \E i \in {m.id : m \in MatchSet} :
        /\ Len(idx_to_entries[i + 1]) = 2
        /\ Len(MatchesOf(i)) = 2
        /\ Cardinality({k \in 1 .. 8 :
              Distance(transformed_hashes_of(ret.arg)[k], faiss_index[i + 1])
                  <= threshold}) >= 2

\* C8: in PDQIndex2 _deduper, _idx_to_entries and the backend have the same
\* size, and for h -> i in _deduper the backend holds h at position i and
\* _idx_to_entries[i] is not empty.
C8_StructuresAgree ==
    kind = "PDQIndex2" =>
        /\ Cardinality(DOMAIN deduper) = Len(idx_to_entries)
        /\ Len(idx_to_entries) = Len(faiss_index)
        /\ \A h \in DOMAIN deduper :
            /\ deduper[h] \in 0 .. (Len(faiss_index) - 1)
            /\ faiss_index[deduper[h] + 1] = h
            /\ idx_to_entries[deduper[h] + 1] # << >>

\* an add_all that raised on an index that holds two hashes
C8_Witness ==
    /\ kind = "PDQIndex2"
    /\ ret.op = "add_all"
    /\ ret.raised
    /\ Cardinality(DOMAIN deduper) = 2

\* C9 as stated: an add_all of PDQIndex2 that raises on a malformed hash
\* leaves the backend, the dedup table and the metadata lists as they were.
C9_NoMutationOnRaise ==
    [][(kind = "PDQIndex2" /\ ret'.op = "add_all" /\ ret'.raised) =>
            UNCHANGED << faiss_index, deduper, idx_to_entries >>]_vars

\* C10 as stated: when the backend's add raises during add or add_all of
\* PDQIndex or PDQFlatIndex, local_id_to_entry is as before the call.
C10_StoreUnchangedOnRaise ==
    [][(kind # "PDQIndex2" /\ ret'.op \in {"add", "add_all"} /\ ret'.raised) =>
            UNCHANGED local_id_to_entry]_vars

\* ------------------------------------------------------------------------
\* Further claims about _get_transformed_hashes
\* ------------------------------------------------------------------------
\* C11: _get_transformed_hashes(h) returns exactly 8 hashes, repeated ones
\* counted, and the first of them is h itself.
C11_EightIdentityFirst ==
    tres # << >> => (Len(tres) = 8 /\ tres[1] = thash)

\* the call returned for a hash that some transformation maps to itself or
\* to another of its images: fewer than 8 distinct hashes in the list
C11_Witness ==
    /\ tres # << >>
    /\ Len(tres) = 8
    /\ tres[1] = thash
    /\ Cardinality(SeqToSet(tres)) < 8
    /\ \E k \in 2 .. 8 : tres[k] = thash

\* ------------------------------------------------------------------------
\* Claims about construction
\* ------------------------------------------------------------------------
\* C12: constructing an index with a threshold outside 0 .. 256 fails and
\* yields no index; only thresholds in 0 .. 256 produce an index.
C12_InvalidThreshold ==
    kind = "PDQIndex2" => threshold \in 0 .. BITS_IN_PDQ

\* ------------------------------------------------------------------------
\* Claims about concurrent queries
\* ------------------------------------------------------------------------
\* what query(hash) returns when it runs alone on the index
SerialQuery(hash) ==
    IF kind = "PDQIndex2"
    THEN query_2(faiss_index, idx_to_entries, threshold, hash)
    ELSE query_1(index, local_id_to_entry, get_match_threshold(kind), hash)

\* C13: no step of a query call, returning or raising, changes the index
\* (backend, dedup table, metadata lists, threshold), and every query call
\* that returns while other query calls run returns what it returns when
\* it runs alone.
C13_QueryLeavesIndex ==
    [][/\ UNCHANGED << kind, threshold, faiss_index, deduper, idx_to_entries,
                       local_id_to_entry, index >>
       /\ \A t \in Threads :
            calls'[t].pc = "returned" =>
                calls'[t].acc.all_matches = SerialQuery(calls'[t].hash)]_vars

\* a call returned matches after its iterations ran between those of
\* another call, which has seen a stored id and is still in its loop, while
\* the index holds two hashes
C13_Witness ==
    /\ Len(hist) = 2
    /\ \E t \in Threads, u \in Threads :
        /\ t # u
        /\ calls[t].pc = "returned"
        /\ calls[t].mixed
        /\ calls[t].acc.all_matches # << >>
        /\ calls[u].pc = "loop"
        /\ calls[u].acc.seen_ids # {}

\* ------------------------------------------------------------------------
\* Claims about the reported distance and the ids
\* ------------------------------------------------------------------------
\* the hash stored in the backend under id i
StoredHash(i) == IF kind = "PDQIndex2" THEN faiss_index[i + 1] ELSE index[i]
\* the orientations (1 .. 8) of the last query within the threshold of id i
HitsOf(i) ==
    {k \in 1 .. 8 :
        Distance(transformed_hashes_of(ret.arg)[k], StoredHash(i)) <= Thr}
FirstHit(i) == CHOOSE k \in HitsOf(i) : \A j \in HitsOf(i) : k <= j

FirstAddedBefore(h) ==
    LET first == CHOOSE n \in 1 .. Len(hist) :
                    hist[n].hash = h /\ \A j \in 1 .. (n - 1) : hist[j].hash # h
    IN  Cardinality({hist[j].hash : j \in 1 .. (first - 1)})
\* the ids are 0 .. len() - 1, given in the order of first insertion
IdsInOrder ==
    /\ DOMAIN deduper = HistHashes
    /\ {deduper[h] : h \in DOMAIN deduper} = 0 .. (len_2 - 1)
    /\ \A h \in DOMAIN deduper : deduper[h] = FirstAddedBefore(h)
\* the pairs the step took
NewPairs ==
    [k \in 1 .. (Len(hist') - Len(hist)) |->
        << hist'[Len(hist) + k].hash, hist'[Len(hist) + k].entry >>]

\* C15: in PDQIndex2 the id of a hash is the number of distinct hashes first
\* added before it; no step changes or removes an assigned id; a metadata
\* list only grows at its end; add_all(batch) leaves the state that add on
\* each pair of the batch in order leaves.
C15_IdsDenseInOrder ==
    [][kind = "PDQIndex2" =>
        /\ IdsInOrder'
        /\ \A h \in DOMAIN deduper :
            h \in DOMAIN deduper' /\ deduper'[h] = deduper[h]
        /\ \A i \in 1 .. Len(idx_to_entries) :
            /\ i <= Len(idx_to_entries')
            /\ Len(idx_to_entries[i]) <= Len(idx_to_entries'[i])
            /\ SubSeq(idx_to_entries'[i], 1, Len(idx_to_entries[i])) = idx_to_entries[i]
        /\ (ret'.op = "add_all" /\ ~ret'.raised) =>
            LET st == add_each_2([faiss |-> faiss_index, ded |-> deduper,
                                  ent |-> idx_to_entries, raised |-> FALSE],
                                 NewPairs)
            IN  /\ ~st.raised
                /\ faiss_index' = st.faiss
                /\ deduper' = st.ded
                /\ idx_to_entries' = st.ent]_vars

\* add_all returned and the index holds two hashes, one of them added
\* again after the other: the hash added first has id 0 and its two
\* payloads in the order added, the other has id 1
C15_Witness ==
    /\ kind = "PDQIndex2"
    /\ ret.op = "add_all"
    /\ ~ret.raised
    /\ Len(hist) = 3
    /\ hist[1].hash = HT /\ hist[2].hash = HA /\ hist[3].hash = HT
    /\ hist[1].entry # hist[3].entry
    /\ deduper[HT] = 0 /\ deduper[HA] = 1
    /\ idx_to_entries[1] = << hist[1].entry, hist[3].entry >>

====
